---- MODULE Spec2Model ----
(***************************************************************************)
(* Boost pool ledger of the cf-ingress-egress pallet                       *)
(* (state-chain/pallets/cf-ingress-egress/src/boost_pool.rs).              *)
(*                                                                         *)
(* The pool state is the five fields of BoostPool.  Every public operation *)
(* is a pure operator from (pool, arguments) to (pool, return value); the  *)
(* actions apply the operators to the current pool.  Scaled amounts are    *)
(* natural numbers; all amounts of the model stay far below 2^128, so the  *)
(* saturating additions of the source never clamp and are plain sums,      *)
(* while the saturating and checked subtractions are modelled as such.     *)
(***************************************************************************)
EXTENDS Integers, Sequences, FiniteSets, TLC

VARIABLES
    fee_bps,              \* BoostPool::fee_bps
    available_amount,     \* BoostPool::available_amount (scaled)
    amounts,              \* BoostPool::amounts: booster -> scaled amount
    pending_boosts,       \* BoostPool::pending_boosts: id -> booster -> OwedAmount
    pending_withdrawals,  \* BoostPool::pending_withdrawals: booster -> set of ids
    call,                 \* the last public call and its arguments
    ret,                  \* the value the last public call returned
    pre,                  \* the pool and the records as they were before that call
    boost_log,            \* per pending boost: what the boost call computed
    resolved,             \* ids whose latest successful boost has been resolved
    rejoined,             \* <<booster, id>>: add_funds cancelled the withdrawal
                          \* the booster had pending on the boost of id
    boosted_from,         \* the latest boost and the balances it was taken from
    ledger,               \* what the calls so far put into the pool and took out
    stopped,              \* boosters that stopped boosting and did not add funds since
    ops                   \* number of public calls made so far

vars == <<fee_bps, available_amount, amounts, pending_boosts, pending_withdrawals,
          call, ret, pre, boost_log, resolved, rejoined, boosted_from, ledger,
          stopped, ops>>

----------------------------------------------------------------------------
(* Bounds of the model *)

NumBoosters == 2
MaxOps == 4
\* calls in the longer sequences of SpecLong
MaxLongOps == 6
\* calls in the sequences of SpecScenario
MaxScenarioOps == 4
\* calls in the sequences of SpecEmpty
MaxEmptyOps == 4
\* calls other than the resolutions of pending deposits in the sequences of
\* SpecExit
MaxExitOps == 4
\* calls in the sequences of SpecRounding
MaxRoundingOps == 5
\* bits of the unsigned integers of the model that stand for the u128 of the
\* code, which is beyond the integers of the model checker
AmountBits == 21

\* account ids, ordered as the keys of the BTreeMaps are
Boosters == 1..NumBoosters
\* prewitnessed deposit ids: 1 makes the last booster the lucky one, 3 the first
DepositIds == {1, 3}
\* chain amounts added and boosted
ChainAmounts == {1, 2}
\* fee rates a pool is constructed with (BasisPoints is a u16)
FeeBpsChoices == {0, 100, 5000, 10000}
\* network fee deductions (Percent)
PercentChoices == {0, 30, 100}
\* the inputs of the longer sequences of SpecLong
LongFeeBps == {100}
LongAmounts == {1}
LongPercents == {0, 100}
\* the inputs of the fee distribution scenario (use_max_available_amount at
\* a thousandth of its amounts)
ScenarioFeeBps == {100}
ScenarioAddedAmounts == {200, 1000}
ScenarioBoostedAmounts == {2000}
ScenarioPercents == {0}
\* the inputs of the sequences of SpecEmpty, in which boosters may hold
\* nothing: add_funds takes any amount, zero included
EmptyFeeBps == {100, 10000}
EmptyAmounts == {0, 1}
EmptyPercents == {0}
\* the inputs of the sequences of SpecRounding, which split a boost of one
\* chain unit in shares that are not whole
RoundingFeeBps == {0, 100}
RoundingAddedAmounts == {1, 2}
RoundingBoostedAmounts == {1}
RoundingPercents == {0}
\* the inputs of the sequences of SpecExit
ExitFeeBps == {100}
ExitAmounts == {1}
ExitPercents == {0}
\* the fee rates and the scaled amounts the fee functions are taken on by
\* themselves: small amounts, whole chain units, and the amounts at the
\* upper end of u128
FeeRates == {0, 6, 10, 100, 5000, 9900, 10000}
FeeAmounts == (0..40) \cup {1000, 2000, 1000000}

----------------------------------------------------------------------------
(* Program constants *)

SCALE_FACTOR == 1000
BASIS_POINTS_MAX == 10000
PERCENT_MAX == 100
\* u128::MAX, at the width of the model
U128_MAX == 2^AmountBits - 1

\* the chain amounts converted in SpecPure: up to twice the largest amount
\* that can be scaled without saturation, and beyond
NativeAmounts == 0..(2 * (U128_MAX \div SCALE_FACTOR) + 1)

----------------------------------------------------------------------------
(* Helpers: maps as functions with a finite domain *)

EmptyMap == [x \in {} |-> 0]

\* BTreeMap::remove
MapRemove(m, k) == [x \in (DOMAIN m) \ {k} |-> m[x]]

\* BTreeMap::insert
MapPut(m, k, v) == [x \in (DOMAIN m) \cup {k} |-> IF x = k THEN v ELSE m[x]]

RECURSIVE SumOver(_, _)
SumOver(f, S) ==
    IF S = {} THEN 0
    ELSE LET x == CHOOSE y \in S : TRUE IN f[x] + SumOver(f, S \ {x})

\* sum of the values of a map
SumValues(m) == SumOver(m, DOMAIN m)

\* the sum of owed.total over the boosters of one boost
OwedTotalOf(boost) == SumValues([b \in DOMAIN boost |-> boost[b].total])

\* the element of S at position i of the ascending iteration (Iterator::nth)
Nth(S, i) == CHOOSE x \in S : Cardinality({y \in S : y < x}) = i

\* the keys of S in ascending order (BTreeMap iteration order)
RECURSIVE SortedSeq(_)
SortedSeq(S) ==
    IF S = {} THEN << >>
    ELSE LET lo == CHOOSE x \in S : \A y \in S : x <= y
         IN <<lo>> \o SortedSeq(S \ {lo})

----------------------------------------------------------------------------
(* Fixed-point amounts and arithmetic *)

\* u128::saturating_mul
saturating_mul(a, b) == IF a * b > U128_MAX THEN U128_MAX ELSE a * b

\* a scaling that wraps around on overflow
from_chain_amount_wrapping(amount) == (amount * SCALE_FACTOR) % (U128_MAX + 1)

from_chain_amount(amount) == saturating_mul(amount, SCALE_FACTOR)

into_chain_amount(val) == val \div SCALE_FACTOR

saturating_sub(a, b) == IF a >= b THEN a - b ELSE 0

\* None is modelled as -1
None == -1

checked_sub(a, b) == IF a >= b THEN a - b ELSE None

\* the largest factor whose square is an integer of the model checker
SafeFactor == 46340

\* quotient q and remainder r of a * b by c (c > 0): the double-width product
\* of multiply_by_rational_with_rounding, taken bit by bit of b where a * b is
\* beyond the integers of the model checker
RECURSIVE mul_div(_, _, _)
mul_div(a, b, c) ==
    IF b = 0 THEN [q |-> 0, r |-> 0]
    ELSE IF a <= SafeFactor /\ b <= SafeFactor
         THEN [q |-> (a * b) \div c, r |-> (a * b) % c]
         ELSE LET half == mul_div(a, b \div 2, c)
                  rest == 2 * half.r + (b % 2) * (a % c)
              IN [q |-> 2 * half.q + (b % 2) * (a \div c) + rest \div c,
                  r |-> rest % c]

\* a quotient that wraps around instead of being refused
mul_rational_down_wrapping(a, b, c) ==
    IF c = 0 THEN None ELSE mul_div(a, b, c).q % (U128_MAX + 1)

\* sp_runtime::helpers_128bit::multiply_by_rational_with_rounding with
\* Rounding::Down: the product is taken in double width, and the result is
\* None when the denominator is 0 or the quotient is beyond u128
mul_rational_down(a, b, c) ==
    IF c = 0 THEN None
    ELSE IF mul_div(a, b, c).q > U128_MAX THEN None ELSE mul_div(a, b, c).q

\* the same with Rounding::Up
mul_rational_up(a, b, c) ==
    IF c = 0 THEN None
    ELSE IF mul_div(a, b, c).q > U128_MAX THEN None
    ELSE IF mul_div(a, b, c).r = 0 THEN mul_div(a, b, c).q
    ELSE IF mul_div(a, b, c).q = U128_MAX THEN None
    ELSE mul_div(a, b, c).q + 1

\* Option<u128>::unwrap_or_default
unwrap_or_default(x) == IF x = None THEN 0 ELSE x

\* `per_thing * x` of sp_arithmetic: x * parts / max rounded to the nearest
\* integer, a tie rounded down (Rounding::NearestPrefDown)
per_thing_mul(parts, max, x) ==
    LET rem_mul == (x % max) * parts
        corr == IF rem_mul % max > max \div 2
                THEN (rem_mul \div max) + 1 ELSE rem_mul \div max
    IN (x \div max) * parts + corr

\* Percent * u128
percent_mul(percent, x) == per_thing_mul(percent, PERCENT_MAX, x)

----------------------------------------------------------------------------
(* Fees *)

\* fee_bps * BASIS_POINTS_PER_MILLION parts of a million is the fraction
\* fee_bps / 10000 (Permill::from_parts clamps at the whole); the product is
\* taken over 10000 to stay inside TLC's integers
fee_from_boosted_amount(amount_to_boost, bps) ==
    LET parts == IF bps > BASIS_POINTS_MAX THEN BASIS_POINTS_MAX ELSE bps
    IN per_thing_mul(parts, BASIS_POINTS_MAX, amount_to_boost)

\* a fee taken as the fee rate applied to the provided amount
fee_from_provided_amount_as_boosted(provided_amount, bps) ==
    [ok |-> bps < BASIS_POINTS_MAX,
     fee |-> fee_from_boosted_amount(provided_amount, bps)]

\* Ok(fee) is [ok |-> TRUE, fee |-> fee], Err("invalid fee") is [ok |-> FALSE]
fee_from_provided_amount(provided_amount, bps) ==
    LET inverse_fee == saturating_sub(BASIS_POINTS_MAX, bps)
        boosted_amount == mul_rational_down(provided_amount, BASIS_POINTS_MAX, inverse_fee)
    IN IF boosted_amount = None THEN [ok |-> FALSE, fee |-> 0]
       ELSE IF checked_sub(boosted_amount, provided_amount) = None
            THEN [ok |-> FALSE, fee |-> 0]
            ELSE [ok |-> TRUE, fee |-> boosted_amount - provided_amount]

----------------------------------------------------------------------------
(* The pool *)

\* BoostPool::new
NewPool(bps) ==
    [fee_bps |-> bps,
     available_amount |-> 0,
     amounts |-> EmptyMap,
     pending_boosts |-> EmptyMap,
     pending_withdrawals |-> EmptyMap]

\* the pool as it is now
Pool ==
    [fee_bps |-> fee_bps,
     available_amount |-> available_amount,
     amounts |-> amounts,
     pending_boosts |-> pending_boosts,
     pending_withdrawals |-> pending_withdrawals]

\* an accrual that leaves the pending withdrawal of the booster in place
add_funds_inner_keeping_withdrawal(p, booster_id, added_amount) ==
    [p EXCEPT
        !.amounts = MapPut(@, booster_id,
                           (IF booster_id \in DOMAIN @ THEN @[booster_id] ELSE 0)
                           + added_amount),
        !.available_amount = @ + added_amount]

\* an accrual of whole chain units only, the fraction of added_amount dropped
add_funds_inner_whole_units(p, booster_id, added_amount) ==
    LET whole == from_chain_amount(into_chain_amount(added_amount))
    IN [p EXCEPT
          !.pending_withdrawals = MapRemove(@, booster_id),
          !.amounts = MapPut(@, booster_id,
                             (IF booster_id \in DOMAIN @ THEN @[booster_id] ELSE 0)
                             + whole),
          !.available_amount = @ + whole]

add_funds_inner(p, booster_id, added_amount) ==
    [p EXCEPT
        !.pending_withdrawals = MapRemove(@, booster_id),
        !.amounts = MapPut(@, booster_id,
                           (IF booster_id \in DOMAIN @ THEN @[booster_id] ELSE 0)
                           + added_amount),
        !.available_amount = @ + added_amount]

\* an add_funds that takes the chain amount for a scaled amount
add_funds_unscaled(p, booster_id, added_amount) ==
    add_funds_inner(p, booster_id, added_amount)

add_funds(p, booster_id, added_amount) ==
    add_funds_inner(p, booster_id, from_chain_amount(added_amount))

\* WyRand::new_seed(id).generate_range(0..n) on a 64-bit target, tabulated:
\* row id, column n + 1
LuckyTable ==
    << <<0, 0, 1, 2, 3, 4, 4, 5>>,
       <<0, 0, 1, 1, 2, 3, 3, 4>>,
       <<0, 0, 0, 0, 0, 0, 0, 0>>,
       <<0, 0, 1, 2, 3, 4, 5, 6>> >>

\* an index past the last booster, which selects nobody
lucky_index_past_the_end(prewitnessed_deposit_id, n) == n

lucky_index(prewitnessed_deposit_id, n) == LuckyTable[prewitnessed_deposit_id][n + 1]

\* a contribution rounded down instead of up
booster_contribution_rounded_down(p, required_amount, b) ==
    unwrap_or_default(
        mul_rational_down(required_amount, p.amounts[b], p.available_amount))

\* a contribution taken as a share of the funds left after the boost
booster_contribution_of_remaining_funds(p, required_amount, b) ==
    unwrap_or_default(
        mul_rational_up(required_amount, p.amounts[b],
                        p.available_amount - required_amount))

\* the share of the required amount a booster contributes, rounded up
booster_contribution(p, required_amount, b) ==
    unwrap_or_default(
        mul_rational_up(required_amount, p.amounts[b], p.available_amount))

\* an amount to receive rounded up instead of down
booster_to_receive_rounded_up(p, amount_to_receive, b) ==
    unwrap_or_default(
        mul_rational_up(amount_to_receive, p.amounts[b], p.available_amount))

\* an amount to receive cut down to whole chain units
booster_to_receive_in_chain_units(p, amount_to_receive, b) ==
    from_chain_amount(into_chain_amount(unwrap_or_default(
        mul_rational_down(amount_to_receive, p.amounts[b], p.available_amount))))

\* the share of the required amount and the fee a booster is owed, rounded down
booster_to_receive(p, amount_to_receive, b) ==
    unwrap_or_default(
        mul_rational_down(amount_to_receive, p.amounts[b], p.available_amount))

\* an insertion that records nothing for a boost no booster contributed to
try_insert_boost_skipping_empty(p, prewitnessed_deposit_id, boosters_to_receive) ==
    IF prewitnessed_deposit_id \in DOMAIN p.pending_boosts
    THEN [pool |-> p, err |-> "Pending boost id already exists"]
    ELSE IF DOMAIN boosters_to_receive = {}
         THEN [pool |-> p, err |-> ""]
         ELSE [pool |-> [p EXCEPT
                          !.pending_boosts =
                              MapPut(@, prewitnessed_deposit_id, boosters_to_receive)],
               err |-> ""]

\* an insert that overwrites the entry of a pending id and reports no error
try_insert_boost_overwriting(p, prewitnessed_deposit_id, boosters_to_receive) ==
    [pool |-> [p EXCEPT
                !.pending_boosts =
                    MapPut(@, prewitnessed_deposit_id, boosters_to_receive)],
     err |-> ""]

\* BTreeMap::try_insert of the owed amounts of a boost: an id that is already
\* pending is an error and its entry stays as it is
try_insert_boost(p, prewitnessed_deposit_id, boosters_to_receive) ==
    IF prewitnessed_deposit_id \in DOMAIN p.pending_boosts
    THEN [pool |-> p, err |-> "Pending boost id already exists"]
    ELSE [pool |-> [p EXCEPT
                     !.pending_boosts =
                         MapPut(@, prewitnessed_deposit_id, boosters_to_receive)],
          err |-> ""]

\* returns [pool, err]; err is "" for Ok(())
use_funds_for_boosting(p, prewitnessed_deposit_id, required_amount, boost_pool_fee) ==
    IF checked_sub(p.available_amount, required_amount) = None
    THEN [pool |-> p, err |-> "Not enough available funds"]
    ELSE
    LET ids == DOMAIN p.amounts
        amount_to_receive == required_amount + boost_pool_fee
        contribution == [b \in ids |-> booster_contribution(p, required_amount, b)]
        to_receive == [b \in ids |-> booster_to_receive(p, amount_to_receive, b)]
        reduced == [b \in ids |-> saturating_sub(p.amounts[b], contribution[b])]
        owed == [b \in ids |->
                    [total |-> to_receive[b],
                     fee |-> saturating_sub(to_receive[b], contribution[b])]]
        total_contributed == SumValues(contribution)
        to_receive_recorded == SumValues(to_receive)
        excess_contributed == saturating_sub(total_contributed, required_amount)
        remaining_to_receive == saturating_sub(amount_to_receive, to_receive_recorded)
        index == lucky_index(prewitnessed_deposit_id, Cardinality(ids))
        has_lucky == index < Cardinality(ids)
        lucky_id == Nth(ids, index)
        new_amounts ==
            IF has_lucky
            THEN [reduced EXCEPT ![lucky_id] = @ + excess_contributed]
            ELSE reduced
        boosters_to_receive ==
            IF has_lucky
            THEN [owed EXCEPT ![lucky_id] =
                    [total |-> @.total + remaining_to_receive,
                     fee |-> @.fee + remaining_to_receive]]
            ELSE owed
        used == [p EXCEPT
                    !.available_amount = @ - required_amount,
                    !.amounts = new_amounts]
    IN try_insert_boost(used, prewitnessed_deposit_id, boosters_to_receive)

\* a pool that never takes the full-amount path
has_sufficient_funds_never(p, required_amount) == FALSE

\* a pool that takes itself for sufficient when it is short of the required
\* amount by less than a chain unit
has_sufficient_funds_short_of_a_unit(p, required_amount) ==
    p.available_amount + SCALE_FACTOR > required_amount

\* a pool that never checks its liquidity
has_sufficient_funds_always(p, required_amount) == TRUE

\* whether the pool can provide the whole required amount
has_sufficient_funds(p, required_amount) == p.available_amount >= required_amount

\* the amounts provide_funds_for_boosting computes before it uses the funds;
\* ok is FALSE when fee_from_provided_amount fails
boost_amounts(p, amount_to_boost, network_fee_deduction) ==
    LET scaled == from_chain_amount(amount_to_boost)
        full_amount_fee == fee_from_boosted_amount(scaled, p.fee_bps)
        required_amount == saturating_sub(scaled, full_amount_fee)
        from_provided == fee_from_provided_amount(p.available_amount, p.fee_bps)
        sufficient == has_sufficient_funds(p, required_amount)
        provided_amount == IF sufficient THEN required_amount ELSE p.available_amount
        fee_amount == IF sufficient THEN full_amount_fee ELSE from_provided.fee
        network_fee == percent_mul(network_fee_deduction, fee_amount)
    IN [ok |-> sufficient \/ from_provided.ok,
        provided_amount |-> provided_amount,
        fee_amount |-> fee_amount,
        network_fee |-> network_fee,
        boost_pool_fee |-> saturating_sub(fee_amount, network_fee)]

\* a result that reports the fee left after the network fee deduction
boost_result_after_deduction(a) ==
    [ok |-> TRUE,
     total |-> into_chain_amount(a.provided_amount + a.fee_amount),
     fee |-> into_chain_amount(a.boost_pool_fee),
     err |-> ""]

\* a result that reports the provided amount without the fee
boost_result_without_fee(a) ==
    [ok |-> TRUE,
     total |-> into_chain_amount(a.provided_amount),
     fee |-> into_chain_amount(a.fee_amount),
     err |-> ""]

\* the pair a successful provide_funds_for_boosting returns, in chain amounts
boost_result(a) ==
    [ok |-> TRUE,
     total |-> into_chain_amount(a.provided_amount + a.fee_amount),
     fee |-> into_chain_amount(a.fee_amount),
     err |-> ""]

\* returns [pool, ret]; ret is [ok, total, fee, err]
provide_funds_for_boosting(p, prewitnessed_deposit_id, amount_to_boost, network_fee_deduction) ==
    LET a == boost_amounts(p, amount_to_boost, network_fee_deduction)
        used == use_funds_for_boosting(p, prewitnessed_deposit_id,
                                       a.provided_amount, a.boost_pool_fee)
    IN IF ~a.ok
       THEN [pool |-> p,
             ret |-> [ok |-> FALSE, total |-> 0, fee |-> 0, err |-> "invalid fee"]]
       ELSE IF used.err # ""
       THEN [pool |-> used.pool,
             ret |-> [ok |-> FALSE, total |-> 0, fee |-> 0, err |-> used.err]]
       ELSE [pool |-> used.pool, ret |-> boost_result(a)]

\* one iteration of the loop of process_deposit_as_finalised over the boosters
\* of the boost, in ascending order; acc is [pool, unlocked_funds, amount_credited]
\* a removal that keeps the booster's entry when its set becomes empty
remove_pending_deposit_keeping_empty(withdrawals, booster_id, prewitnessed_deposit_id) ==
    MapPut(withdrawals, booster_id,
           withdrawals[booster_id] \ {prewitnessed_deposit_id})

\* the pending withdrawals of a withdrawing booster once a deposit is
\* resolved: the deposit leaves the booster's set, an empty set is dropped
remove_pending_deposit(withdrawals, booster_id, prewitnessed_deposit_id) ==
    LET pending_deposits == withdrawals[booster_id] \ {prewitnessed_deposit_id}
    IN IF pending_deposits = {}
       THEN MapRemove(withdrawals, booster_id)
       ELSE MapPut(withdrawals, booster_id, pending_deposits)

\* a step that counts only what re-enters the pool as credited
finalise_booster_counting_active_only(acc, booster_id, amount, prewitnessed_deposit_id) ==
    LET p == acc.pool
        withdrawing == booster_id \in DOMAIN p.pending_withdrawals
        unlocked == [p EXCEPT
                        !.pending_withdrawals =
                            remove_pending_deposit(@, booster_id,
                                                   prewitnessed_deposit_id)]
    IN IF withdrawing
       THEN [pool |-> unlocked,
             unlocked_funds |->
                 Append(acc.unlocked_funds,
                        <<booster_id, into_chain_amount(amount.total)>>),
             amount_credited |-> acc.amount_credited]
       ELSE [pool |-> add_funds_inner(p, booster_id, amount.total),
             unlocked_funds |-> acc.unlocked_funds,
             amount_credited |-> acc.amount_credited + amount.total]

\* an iteration that credits an active booster with what it is owed less
\* the fee
finalise_booster_crediting_contribution(acc, booster_id, amount, prewitnessed_deposit_id) ==
    LET p == acc.pool
        withdrawing == booster_id \in DOMAIN p.pending_withdrawals
        unlocked == [p EXCEPT
                        !.pending_withdrawals =
                            remove_pending_deposit(@, booster_id,
                                                   prewitnessed_deposit_id)]
    IN IF withdrawing
       THEN [pool |-> unlocked,
             unlocked_funds |->
                 Append(acc.unlocked_funds,
                        <<booster_id, into_chain_amount(amount.total)>>),
             amount_credited |-> acc.amount_credited + amount.total]
       ELSE [pool |-> add_funds_inner(p, booster_id,
                                      saturating_sub(amount.total, amount.fee)),
             unlocked_funds |-> acc.unlocked_funds,
             amount_credited |-> acc.amount_credited + amount.total]

\* one iteration of the loop of process_deposit_as_finalised: the funds owed
\* to a withdrawing booster are unlocked, those of an active one re-enter the
\* pool; acc is [pool, unlocked_funds, amount_credited]
finalise_booster(acc, booster_id, amount, prewitnessed_deposit_id) ==
    LET p == acc.pool
        withdrawing == booster_id \in DOMAIN p.pending_withdrawals
        unlocked == [p EXCEPT
                        !.pending_withdrawals =
                            remove_pending_deposit(@, booster_id,
                                                   prewitnessed_deposit_id)]
    IN IF withdrawing
       THEN [pool |-> unlocked,
             unlocked_funds |->
                 Append(acc.unlocked_funds,
                        <<booster_id, into_chain_amount(amount.total)>>),
             amount_credited |-> acc.amount_credited + amount.total]
       ELSE [pool |-> add_funds_inner(p, booster_id, amount.total),
             unlocked_funds |-> acc.unlocked_funds,
             amount_credited |-> acc.amount_credited + amount.total]

RECURSIVE finalise_loop(_, _, _, _)
finalise_loop(acc, boost_contributions, order, prewitnessed_deposit_id) ==
    IF order = << >> THEN acc
    ELSE finalise_loop(finalise_booster(acc, Head(order),
                                        boost_contributions[Head(order)],
                                        prewitnessed_deposit_id),
                       boost_contributions, Tail(order), prewitnessed_deposit_id)

\* a finalisation that leaves the record of the boost in pending_boosts
finalise_pending_keeping_boost(p, prewitnessed_deposit_id) ==
    LET boost_contributions == p.pending_boosts[prewitnessed_deposit_id]
        removed == p
        done == finalise_loop(
                    [pool |-> removed, unlocked_funds |-> << >>, amount_credited |-> 0],
                    boost_contributions,
                    SortedSeq(DOMAIN boost_contributions),
                    prewitnessed_deposit_id)
    IN [pool |-> done.pool,
        ret |-> [unlocked_funds |-> done.unlocked_funds,
                 amount_credited_to_boosters |->
                     into_chain_amount(done.amount_credited)]]

\* process_deposit_as_finalised for a deposit found in pending_boosts
finalise_pending(p, prewitnessed_deposit_id) ==
    LET boost_contributions == p.pending_boosts[prewitnessed_deposit_id]
        removed == [p EXCEPT !.pending_boosts = MapRemove(@, prewitnessed_deposit_id)]
        done == finalise_loop(
                    [pool |-> removed, unlocked_funds |-> << >>, amount_credited |-> 0],
                    boost_contributions,
                    SortedSeq(DOMAIN boost_contributions),
                    prewitnessed_deposit_id)
    IN [pool |-> done.pool,
        ret |-> [unlocked_funds |-> done.unlocked_funds,
                 amount_credited_to_boosters |->
                     into_chain_amount(done.amount_credited)]]

\* a finalisation that gives up all pending withdrawals for an unknown deposit
process_deposit_as_finalised_clearing_withdrawals(p, prewitnessed_deposit_id) ==
    IF prewitnessed_deposit_id \notin DOMAIN p.pending_boosts
    THEN [pool |-> [p EXCEPT !.pending_withdrawals = EmptyMap],
          ret |-> [unlocked_funds |-> << >>, amount_credited_to_boosters |-> 0]]
    ELSE finalise_pending(p, prewitnessed_deposit_id)

\* returns [pool, ret]; ret is [unlocked_funds, amount_credited_to_boosters]
process_deposit_as_finalised(p, prewitnessed_deposit_id) ==
    IF prewitnessed_deposit_id \notin DOMAIN p.pending_boosts
    THEN [pool |-> p,
          ret |-> [unlocked_funds |-> << >>, amount_credited_to_boosters |-> 0]]
    ELSE finalise_pending(p, prewitnessed_deposit_id)

\* a loop that leaves the lost deposit in the sets of the withdrawing boosters
lost_loop_leaving_withdrawals(withdrawals, order, prewitnessed_deposit_id) ==
    withdrawals

\* a loop that ends the withdrawal of every contributor, whatever other
\* deposits it waits for
RECURSIVE lost_loop_dropping_entries(_, _, _)
lost_loop_dropping_entries(withdrawals, order, prewitnessed_deposit_id) ==
    IF order = << >> THEN withdrawals
    ELSE lost_loop_dropping_entries(MapRemove(withdrawals, Head(order)),
                                    Tail(order), prewitnessed_deposit_id)

\* the pending_withdrawals left by the loop of process_deposit_as_lost
RECURSIVE lost_loop(_, _, _)
lost_loop(withdrawals, order, prewitnessed_deposit_id) ==
    IF order = << >> THEN withdrawals
    ELSE
    LET booster_id == Head(order)
        next == IF booster_id \in DOMAIN withdrawals
                THEN remove_pending_deposit(withdrawals, booster_id,
                                            prewitnessed_deposit_id)
                ELSE withdrawals
    IN lost_loop(next, Tail(order), prewitnessed_deposit_id)

\* log_or_panic!: whether the call ends in a panic; the anomaly is logged and
\* the call goes on
log_or_panic == FALSE

\* process_deposit_as_lost for a deposit found in pending_boosts
lose_pending(p, prewitnessed_deposit_id) ==
    LET booster_contributions == p.pending_boosts[prewitnessed_deposit_id]
    IN [pool |-> [p EXCEPT
                    !.pending_boosts = MapRemove(@, prewitnessed_deposit_id),
                    !.pending_withdrawals =
                        lost_loop(@, SortedSeq(DOMAIN booster_contributions),
                                  prewitnessed_deposit_id)],
        ret |-> Cardinality(DOMAIN booster_contributions),
        panicked |-> FALSE]

\* a call that reports the boosters of the pool for an unknown deposit
process_deposit_as_lost_counting_boosters(p, prewitnessed_deposit_id) ==
    IF prewitnessed_deposit_id \notin DOMAIN p.pending_boosts
    THEN [pool |-> p, ret |-> Cardinality(DOMAIN p.amounts),
          panicked |-> log_or_panic]
    ELSE lose_pending(p, prewitnessed_deposit_id)

\* a loss that leaves the record of the boost in pending_boosts
process_deposit_as_lost_keeping_boost(p, prewitnessed_deposit_id) ==
    IF prewitnessed_deposit_id \notin DOMAIN p.pending_boosts
    THEN [pool |-> p, ret |-> 0, panicked |-> log_or_panic]
    ELSE [pool |-> p,
          ret |-> Cardinality(DOMAIN p.pending_boosts[prewitnessed_deposit_id]),
          panicked |-> FALSE]

\* returns [pool, ret, panicked]; ret is the number of boosters affected
process_deposit_as_lost(p, prewitnessed_deposit_id) ==
    IF prewitnessed_deposit_id \notin DOMAIN p.pending_boosts
    THEN [pool |-> p, ret |-> 0, panicked |-> log_or_panic]
    ELSE lose_pending(p, prewitnessed_deposit_id)

\* every pending deposit, whoever contributed to it
pending_deposits_of_any_booster(p, booster_id) == DOMAIN p.pending_boosts

\* only the latest of the pending deposits the booster contributed to
pending_deposits_of_latest_boost(p, booster_id) ==
    {id \in DOMAIN p.pending_boosts :
        /\ booster_id \in DOMAIN p.pending_boosts[id]
        /\ \A other \in DOMAIN p.pending_boosts :
               booster_id \in DOMAIN p.pending_boosts[other] => other <= id}

\* the pending deposits the booster contributed to
pending_deposits_of(p, booster_id) ==
    {id \in DOMAIN p.pending_boosts : booster_id \in DOMAIN p.pending_boosts[id]}

\* a withdrawal that answers a booster without funds as one with a balance
\* of zero
stop_boosting_defaulting(p, booster_id) ==
    LET booster_active_amount ==
            IF booster_id \in DOMAIN p.amounts THEN p.amounts[booster_id] ELSE 0
        pending_deposits == pending_deposits_of(p, booster_id)
    IN [pool |-> [p EXCEPT
                    !.amounts = MapRemove(@, booster_id),
                    !.available_amount = saturating_sub(@, booster_active_amount),
                    !.pending_withdrawals =
                        IF pending_deposits # {}
                        THEN MapPut(@, booster_id, pending_deposits)
                        ELSE @],
        ret |-> [ok |-> TRUE,
                 amount |-> into_chain_amount(booster_active_amount),
                 pending_deposits |-> pending_deposits,
                 err |-> ""]]

\* a withdrawal that takes only the whole chain units paid out from
\* available_amount
stop_boosting_reducing_whole_units(p, booster_id) ==
    IF booster_id \notin DOMAIN p.amounts
    THEN [pool |-> p,
          ret |-> [ok |-> FALSE, amount |-> 0, pending_deposits |-> {},
                   err |-> "AccountNotFoundInBoostPool"]]
    ELSE
    LET booster_active_amount == p.amounts[booster_id]
        pending_deposits == pending_deposits_of(p, booster_id)
    IN [pool |-> [p EXCEPT
                    !.amounts = MapRemove(@, booster_id),
                    !.available_amount = saturating_sub(@, from_chain_amount(into_chain_amount(booster_active_amount))),
                    !.pending_withdrawals =
                        IF pending_deposits # {}
                        THEN MapPut(@, booster_id, pending_deposits)
                        ELSE @],
        ret |-> [ok |-> TRUE,
                 amount |-> into_chain_amount(booster_active_amount),
                 pending_deposits |-> pending_deposits,
                 err |-> ""]]

\* a withdrawal that leaves the booster in amounts with a balance of zero
stop_boosting_keeping_entry(p, booster_id) ==
    IF booster_id \notin DOMAIN p.amounts
    THEN [pool |-> p,
          ret |-> [ok |-> FALSE, amount |-> 0, pending_deposits |-> {},
                   err |-> "AccountNotFoundInBoostPool"]]
    ELSE
    LET booster_active_amount == p.amounts[booster_id]
        pending_deposits == pending_deposits_of(p, booster_id)
    IN [pool |-> [p EXCEPT
                    !.amounts = MapPut(@, booster_id, 0),
                    !.available_amount = saturating_sub(@, booster_active_amount),
                    !.pending_withdrawals =
                        IF pending_deposits # {}
                        THEN MapPut(@, booster_id, pending_deposits)
                        ELSE @],
        ret |-> [ok |-> TRUE,
                 amount |-> into_chain_amount(booster_active_amount),
                 pending_deposits |-> pending_deposits,
                 err |-> ""]]

\* returns [pool, ret]; ret is [ok, amount, pending_deposits, err]
stop_boosting(p, booster_id) ==
    IF booster_id \notin DOMAIN p.amounts
    THEN [pool |-> p,
          ret |-> [ok |-> FALSE, amount |-> 0, pending_deposits |-> {},
                   err |-> "AccountNotFoundInBoostPool"]]
    ELSE
    LET booster_active_amount == p.amounts[booster_id]
        pending_deposits == pending_deposits_of(p, booster_id)
    IN [pool |-> [p EXCEPT
                    !.amounts = MapRemove(@, booster_id),
                    !.available_amount = saturating_sub(@, booster_active_amount),
                    !.pending_withdrawals =
                        IF pending_deposits # {}
                        THEN MapPut(@, booster_id, pending_deposits)
                        ELSE @],
        ret |-> [ok |-> TRUE,
                 amount |-> into_chain_amount(booster_active_amount),
                 pending_deposits |-> pending_deposits,
                 err |-> ""]]

----------------------------------------------------------------------------
(* The state machine: the public calls on one pool *)

\* the fields of the pool take the values of p
Becomes(p) ==
    /\ fee_bps' = p.fee_bps
    /\ available_amount' = p.available_amount
    /\ amounts' = p.amounts
    /\ pending_boosts' = p.pending_boosts
    /\ pending_withdrawals' = p.pending_withdrawals

\* no boost is followed
NoBoost(tracked) == [id |-> 0, amounts |-> EmptyMap, tracked |-> tracked]

\* the latest boost and the balances it was taken from, as far as they can
\* be compared with the balances at its finalisation: a booster that adds
\* funds or stops boosting is dropped, another provide_funds_for_boosting
\* call replaces the boost, and its resolution ends it
BoostedFromAfter(op, booster_id, id, amount, percent) ==
    IF op = "provide_funds_for_boosting"
    THEN IF provide_funds_for_boosting(Pool, id, amount, percent).ret.ok
         THEN [id |-> id, amounts |-> amounts, tracked |-> TRUE]
         ELSE NoBoost(TRUE)
    ELSE IF op \in {"add_funds", "stop_boosting"}
    THEN [boosted_from EXCEPT !.amounts = MapRemove(@, booster_id)]
    ELSE IF op \in {"process_deposit_as_finalised", "process_deposit_as_lost"}
              /\ id = boosted_from.id
    THEN NoBoost(TRUE)
    ELSE boosted_from

\* the boosters that stopped boosting and did not add funds since, after a
\* call
StoppedAfter(op, booster_id) ==
    IF op = "stop_boosting" /\ booster_id \in DOMAIN amounts
    THEN stopped.boosters \cup {booster_id}
    ELSE IF op = "add_funds" THEN stopped.boosters \ {booster_id}
    ELSE stopped.boosters

\* nothing went into the pool or out of it
NoLedger(tracked) ==
    [tracked |-> tracked, fresh_ids |-> TRUE, income |-> 0, outgo |-> 0,
     paid |-> 0]

\* the owed totals of a pending boost that belong to withdrawing boosters
UnlockedTotal(p, id) ==
    SumOver([b \in DOMAIN p.pending_boosts[id] |-> p.pending_boosts[id][b].total],
            (DOMAIN p.pending_boosts[id]) \cap (DOMAIN p.pending_withdrawals))

\* the chain amounts of a sequence of unlocked funds
UnlockedPaid(unlocked_funds) ==
    SumOver([i \in DOMAIN unlocked_funds |-> unlocked_funds[i][2]],
            DOMAIN unlocked_funds)

\* the ledger after a call. income: the scaled amounts added by add_funds and
\* the fees of the boosts made, after the network fee deduction. outgo: the
\* scaled balances removed by stop_boosting, the owed totals released as
\* unlocked funds and the owed totals of the deposits lost. paid: the chain
\* amounts stop_boosting returned and the finalisations unlocked. fresh_ids:
\* no boost was asked for with an id that was pending
LedgerAfter(op, booster_id, id, amount, percent) ==
    IF op = "add_funds"
    THEN [ledger EXCEPT !.income = @ + from_chain_amount(amount)]
    ELSE IF op = "provide_funds_for_boosting"
    THEN [ledger EXCEPT
             !.fresh_ids = @ /\ id \notin DOMAIN pending_boosts,
             !.income =
                 IF provide_funds_for_boosting(Pool, id, amount, percent).ret.ok
                 THEN @ + boost_amounts(Pool, amount, percent).boost_pool_fee
                 ELSE @]
    ELSE IF op = "stop_boosting" /\ booster_id \in DOMAIN amounts
    THEN [ledger EXCEPT
             !.outgo = @ + amounts[booster_id],
             !.paid = @ + stop_boosting(Pool, booster_id).ret.amount]
    ELSE IF op = "process_deposit_as_finalised" /\ id \in DOMAIN pending_boosts
    THEN [ledger EXCEPT
             !.outgo = @ + UnlockedTotal(Pool, id),
             !.paid = @ + UnlockedPaid(
                              process_deposit_as_finalised(Pool, id).ret.unlocked_funds)]
    ELSE IF op = "process_deposit_as_lost" /\ id \in DOMAIN pending_boosts
    THEN [ledger EXCEPT !.outgo = @ + OwedTotalOf(pending_boosts[id])]
    ELSE ledger

\* a call is recorded with the pool it was made on; limit bounds the number
\* of calls
CalledWithin(limit, op, booster_id, id, amount, percent) ==
    /\ ops < limit
    /\ ops' = ops + 1
    /\ call' = [op |-> op, booster |-> booster_id, id |-> id,
                amount |-> amount, percent |-> percent]
    /\ pre' = [pool |-> Pool, boost_log |-> boost_log, resolved |-> resolved,
                rejoined |-> rejoined, boosted_from |-> boosted_from]
    /\ boosted_from' =
           IF boosted_from.tracked
           THEN BoostedFromAfter(op, booster_id, id, amount, percent)
           ELSE boosted_from
    /\ ledger' =
           IF ledger.tracked
           THEN LedgerAfter(op, booster_id, id, amount, percent)
           ELSE ledger
    /\ stopped' =
           IF stopped.tracked
           THEN [stopped EXCEPT !.boosters = StoppedAfter(op, booster_id)]
           ELSE stopped

Called(op, booster_id, id, amount, percent) ==
    CalledWithin(MaxOps, op, booster_id, id, amount, percent)

\* the boosts recorded before this call are no longer the latest call
Aged(log) == [id \in DOMAIN log |-> [log[id] EXCEPT !.fresh = FALSE]]

\* a new pool with one of the fee rates; tracked tells which of the history
\* variables boosted_from, ledger and stopped are kept
InitTracking(fee_rates, tracked) ==
    /\ fee_bps \in fee_rates
    /\ available_amount = 0
    /\ amounts = EmptyMap
    /\ pending_boosts = EmptyMap
    /\ pending_withdrawals = EmptyMap
    /\ call = [op |-> "new", booster |-> 0, id |-> 0, amount |-> 0, percent |-> 0]
    /\ ret = [ok |-> TRUE]
    /\ pre = [pool |-> NewPool(fee_bps), boost_log |-> EmptyMap, resolved |-> {},
               rejoined |-> {},
               boosted_from |-> NoBoost("boosted_from" \in tracked)]
    /\ boosted_from = NoBoost("boosted_from" \in tracked)
    /\ ledger = NoLedger("ledger" \in tracked)
    /\ stopped = [tracked |-> "stopped" \in tracked, boosters |-> {}]
    /\ boost_log = EmptyMap
    /\ resolved = {}
    /\ rejoined = {}
    /\ ops = 0

InitWith(fee_rates) == InitTracking(fee_rates, {})

Init == InitWith(FeeBpsChoices)

\* add_funds with an amount of chain_amounts
AddFundsOf(limit, chain_amounts) ==
    \E booster_id \in Boosters, added_amount \in chain_amounts :
        /\ CalledWithin(limit, "add_funds", booster_id, 0, added_amount, 0)
        /\ Becomes(add_funds(Pool, booster_id, added_amount))
        /\ ret' = [ok |-> TRUE]
        /\ boost_log' = Aged(boost_log)
        /\ UNCHANGED resolved
        /\ rejoined' =
              rejoined \cup
              (IF booster_id \in DOMAIN pending_withdrawals
               THEN {<<booster_id, id>> : id \in pending_withdrawals[booster_id]}
               ELSE {})

\* provide_funds_for_boosting with an amount of chain_amounts and a network
\* fee deduction of percents
ProvideFundsForBoostingOf(limit, chain_amounts, percents) ==
    \E id \in DepositIds, amount_to_boost \in chain_amounts, percent \in percents :
        LET r == provide_funds_for_boosting(Pool, id, amount_to_boost, percent)
            a == boost_amounts(Pool, amount_to_boost, percent)
        IN /\ CalledWithin(limit, "provide_funds_for_boosting", 0, id,
                           amount_to_boost, percent)
           /\ Becomes(r.pool)
           /\ ret' = r.ret
           /\ boost_log' =
                IF r.ret.ok
                THEN MapPut(Aged(boost_log), id,
                            [required_amount |-> a.provided_amount,
                             boost_pool_fee |-> a.boost_pool_fee,
                             available_before |-> available_amount,
                             fresh |-> TRUE])
                ELSE Aged(boost_log)
           /\ resolved' = IF r.ret.ok THEN resolved \ {id} ELSE resolved
           /\ UNCHANGED rejoined

StopBoostingOf(limit) ==
    \E booster_id \in Boosters :
        LET r == stop_boosting(Pool, booster_id)
        IN /\ CalledWithin(limit, "stop_boosting", booster_id, 0, 0, 0)
           /\ Becomes(r.pool)
           /\ ret' = r.ret
           /\ boost_log' = Aged(boost_log)
           /\ UNCHANGED resolved
           /\ rejoined' = {e \in rejoined : e[1] # booster_id}

ProcessDepositAsFinalisedOf(limit) ==
    \E id \in DepositIds :
        LET r == process_deposit_as_finalised(Pool, id)
        IN /\ CalledWithin(limit, "process_deposit_as_finalised", 0, id, 0, 0)
           /\ Becomes(r.pool)
           /\ ret' = r.ret
           /\ boost_log' = Aged(MapRemove(boost_log, id))
           /\ resolved' = IF id \in DOMAIN boost_log
                          THEN resolved \cup {id}
                          ELSE resolved
           /\ rejoined' = {e \in rejoined : e[2] # id}

ProcessDepositAsLostOf(limit) ==
    \E id \in DepositIds :
        LET r == process_deposit_as_lost(Pool, id)
        IN /\ CalledWithin(limit, "process_deposit_as_lost", 0, id, 0, 0)
           /\ Becomes(r.pool)
           /\ ret' = [count |-> r.ret, panicked |-> r.panicked]
           /\ boost_log' = Aged(MapRemove(boost_log, id))
           /\ resolved' = IF id \in DOMAIN boost_log
                          THEN resolved \cup {id}
                          ELSE resolved
           /\ rejoined' = {e \in rejoined : e[2] # id}

AddFunds == AddFundsOf(MaxOps, ChainAmounts)

ProvideFundsForBoosting ==
    ProvideFundsForBoostingOf(MaxOps, ChainAmounts, PercentChoices)

StopBoosting == StopBoostingOf(MaxOps)

ProcessDepositAsFinalised == ProcessDepositAsFinalisedOf(MaxOps)

ProcessDepositAsLost == ProcessDepositAsLostOf(MaxOps)

Next ==
    \/ AddFunds
    \/ ProvideFundsForBoosting
    \/ StopBoosting
    \/ ProcessDepositAsFinalised
    \/ ProcessDepositAsLost

Spec == Init /\ [][Next]_vars

\* Longer call sequences on a pool with one fee rate and amounts of one chain
\* unit, boosted with no or the full network fee deduction
InitLong == InitWith(LongFeeBps)

LongAddFunds == AddFundsOf(MaxLongOps, LongAmounts)

LongProvideFundsForBoosting ==
    ProvideFundsForBoostingOf(MaxLongOps, LongAmounts, LongPercents)

LongStopBoosting == StopBoostingOf(MaxLongOps)

LongProcessDepositAsFinalised == ProcessDepositAsFinalisedOf(MaxLongOps)

LongProcessDepositAsLost == ProcessDepositAsLostOf(MaxLongOps)

NextLong ==
    \/ LongAddFunds
    \/ LongProvideFundsForBoosting
    \/ LongStopBoosting
    \/ LongProcessDepositAsFinalised
    \/ LongProcessDepositAsLost

SpecLong == InitLong /\ [][NextLong]_vars

\* Sequences of the calls of the fee distribution scenario, with its fee rate
\* and its amounts
InitScenario == InitWith(ScenarioFeeBps)

ScenarioAddFunds == AddFundsOf(MaxScenarioOps, ScenarioAddedAmounts)

ScenarioProvideFundsForBoosting ==
    ProvideFundsForBoostingOf(MaxScenarioOps, ScenarioBoostedAmounts,
                              ScenarioPercents)

ScenarioProcessDepositAsFinalised == ProcessDepositAsFinalisedOf(MaxScenarioOps)

NextScenario ==
    \/ ScenarioAddFunds
    \/ ScenarioProvideFundsForBoosting
    \/ ScenarioProcessDepositAsFinalised

SpecScenario == InitScenario /\ [][NextScenario]_vars

\* Sequences of calls on pools whose boosters may hold a balance of zero
InitEmpty == InitWith(EmptyFeeBps)

EmptyAddFunds == AddFundsOf(MaxEmptyOps, EmptyAmounts)

EmptyProvideFundsForBoosting ==
    ProvideFundsForBoostingOf(MaxEmptyOps, ChainAmounts, EmptyPercents)

EmptyStopBoosting == StopBoostingOf(MaxEmptyOps)

NextEmpty ==
    \/ EmptyAddFunds
    \/ EmptyProvideFundsForBoosting
    \/ EmptyStopBoosting

SpecEmpty == InitEmpty /\ [][NextEmpty]_vars

\* The conversions of ScaledAmount taken alone, on every amount of
\* NativeAmounts
InitPure == InitWith({0})

\* from_chain_amount followed by into_chain_amount
ScaledRoundTrip ==
    \E amount \in NativeAmounts :
        /\ CalledWithin(1, "from_chain_amount", 0, 0, amount, 0)
        /\ ret' = [scaled |-> from_chain_amount(amount),
                   recovered |-> into_chain_amount(from_chain_amount(amount))]
        /\ UNCHANGED <<fee_bps, available_amount, amounts, pending_boosts,
                       pending_withdrawals, boost_log, resolved, rejoined>>

NextPure == ScaledRoundTrip

SpecPure == InitPure /\ [][NextPure]_vars

\* Sequences of calls in which the latest boost is followed to its
\* finalisation, with the balances it was taken from
InitRounding == InitTracking(RoundingFeeBps, {"boosted_from", "ledger"})

RoundingAddFunds == AddFundsOf(MaxRoundingOps, RoundingAddedAmounts)

RoundingProvideFundsForBoosting ==
    ProvideFundsForBoostingOf(MaxRoundingOps, RoundingBoostedAmounts,
                              RoundingPercents)

RoundingStopBoosting == StopBoostingOf(MaxRoundingOps)

RoundingProcessDepositAsFinalised == ProcessDepositAsFinalisedOf(MaxRoundingOps)

RoundingProcessDepositAsLost == ProcessDepositAsLostOf(MaxRoundingOps)

NextRounding ==
    \/ RoundingAddFunds
    \/ RoundingProvideFundsForBoosting
    \/ RoundingStopBoosting
    \/ RoundingProcessDepositAsFinalised
    \/ RoundingProcessDepositAsLost

SpecRounding == InitRounding /\ [][NextRounding]_vars

\* Sequences of calls that end with the resolution of every pending deposit:
\* add_funds, boosts and stop_boosting stop after MaxExitOps calls, and a
\* deposit that is pending is finalised or lost sooner or later. The fairness
\* is the condition of the environment under which the pool is to empty: the
\* pallet resolves every deposit it had boosted
InitExit == InitTracking(ExitFeeBps, {"stopped"})

ExitAddFunds == AddFundsOf(MaxExitOps, ExitAmounts)

ExitProvideFundsForBoosting ==
    ProvideFundsForBoostingOf(MaxExitOps, ExitAmounts, ExitPercents)

ExitStopBoosting == StopBoostingOf(MaxExitOps)

\* the finalisation of a deposit that is pending
ExitProcessDepositAsFinalised ==
    /\ ProcessDepositAsFinalisedOf(MaxExitOps + Cardinality(DepositIds))
    /\ call'.id \in DOMAIN pending_boosts

\* the loss of a deposit that is pending
ExitProcessDepositAsLost ==
    /\ ProcessDepositAsLostOf(MaxExitOps + Cardinality(DepositIds))
    /\ call'.id \in DOMAIN pending_boosts

ExitResolution ==
    \/ ExitProcessDepositAsFinalised
    \/ ExitProcessDepositAsLost

NextExit ==
    \/ ExitAddFunds
    \/ ExitProvideFundsForBoosting
    \/ ExitStopBoosting
    \/ ExitResolution

SpecExit == InitExit /\ [][NextExit]_vars /\ WF_vars(ExitResolution)

\* The two fee functions taken alone, on the fee rate of the pool and on
\* every amount of FeeAmounts and of the upper end of u128
InitFees == InitWith(FeeRates)

FeeAmountsNearMax == {U128_MAX \div 2, U128_MAX \div 2 + 1, U128_MAX - 1, U128_MAX}

FeeFromBoostedAmount ==
    \E amount \in FeeAmounts \cup FeeAmountsNearMax :
        /\ CalledWithin(1, "fee_from_boosted_amount", 0, 0, amount, 0)
        /\ ret' = [ok |-> TRUE, fee |-> fee_from_boosted_amount(amount, fee_bps)]
        /\ UNCHANGED <<fee_bps, available_amount, amounts, pending_boosts,
                       pending_withdrawals, boost_log, resolved, rejoined>>

FeeFromProvidedAmount ==
    \E amount \in FeeAmounts \cup FeeAmountsNearMax :
        /\ CalledWithin(1, "fee_from_provided_amount", 0, 0, amount, 0)
        /\ ret' = fee_from_provided_amount(amount, fee_bps)
        /\ UNCHANGED <<fee_bps, available_amount, amounts, pending_boosts,
                       pending_withdrawals, boost_log, resolved, rejoined>>

NextFees ==
    \/ FeeFromBoostedAmount
    \/ FeeFromProvidedAmount

SpecFees == InitFees /\ [][NextFees]_vars

----------------------------------------------------------------------------
(* Properties *)

IsProvide == call.op = "provide_funds_for_boosting"
IsStop == call.op = "stop_boosting"
IsFinalised == call.op = "process_deposit_as_finalised"

\* the sum of owed.total over the boosters recorded for a pending boost
OwedTotal(boosts, id) ==
    SumValues([b \in DOMAIN boosts[id] |-> boosts[id][b].total])

\* the amount the last provide_funds_for_boosting call had to provide in full:
\* amount_to_boost less the full fee on it
CallRequired ==
    saturating_sub(from_chain_amount(call.amount),
                   fee_from_boosted_amount(from_chain_amount(call.amount), fee_bps))

\* the full fee on the amount of the last provide_funds_for_boosting call
CallFullFee == fee_from_boosted_amount(from_chain_amount(call.amount), fee_bps)

\* the last call was a provide_funds_for_boosting on a pool holding enough
CallSufficient == IsProvide /\ pre.pool.available_amount >= CallRequired

\* the last call was a provide_funds_for_boosting on a pool holding too little
CallInsufficient == IsProvide /\ pre.pool.available_amount < CallRequired

\* the last call was a provide_funds_for_boosting with an id that was pending
CallIdPending == IsProvide /\ call.id \in DOMAIN pre.pool.pending_boosts

\* the amounts the last provide_funds_for_boosting call computed
CallAmounts == boost_amounts(pre.pool, call.amount, call.percent)

\* C1: in every reachable state available_amount is the sum of the entries
\* of amounts (scaled), after successful and after failing calls alike
Conservation == available_amount = SumValues(amounts)

\* C1 witness: a boost has split a required amount over two boosters with
\* rounded shares
ConservationWitness ==
    /\ IsProvide /\ ret.ok
    /\ Cardinality(DOMAIN amounts) >= 2
    /\ \E b \in DOMAIN amounts : amounts[b] % SCALE_FACTOR # 0

\* C2 (as claimed): for every pending deposit id the owed totals sum to the
\* principal the boost removed from available_amount plus the fee left after
\* the network fee deduction
OwedMatchesLiability ==
    \A id \in DOMAIN pending_boosts :
        OwedTotal(pending_boosts, id) =
            boost_log[id].required_amount + boost_log[id].boost_pool_fee

\* C3 (as claimed): after a successful provide_funds_for_boosting the owed
\* totals of the new boost, in chain amounts, equal the returned total
OwedEqualsReturnedTotal ==
    IsProvide /\ ret.ok =>
        into_chain_amount(OwedTotal(pending_boosts, call.id)) = ret.total

\* C3 (amended): after a successful provide_funds_for_boosting the owed totals
\* of the new boost, in chain amounts, never exceed the returned total; on a
\* pool with a booster they are the provided amount plus the fee less the
\* network fee, so they equal the returned total when the deduction is 0%
OwedIsReturnedTotalLessNetworkFee ==
    IsProvide /\ ret.ok =>
        /\ into_chain_amount(OwedTotal(pending_boosts, call.id)) <= ret.total
        /\ DOMAIN pre.pool.amounts # {} =>
            /\ OwedTotal(pending_boosts, call.id) + CallAmounts.network_fee
                 = CallAmounts.provided_amount + CallAmounts.fee_amount
            /\ into_chain_amount(OwedTotal(pending_boosts, call.id)
                                 + CallAmounts.network_fee) = ret.total
            /\ call.percent = 0 =>
                 into_chain_amount(OwedTotal(pending_boosts, call.id)) = ret.total

\* C3 witness: a boost with a network fee deduction that took part of the fee
OwedLessNetworkFeeWitness ==
    /\ IsProvide /\ ret.ok
    /\ DOMAIN pre.pool.amounts # {}
    /\ CallAmounts.network_fee > 0
    /\ into_chain_amount(OwedTotal(pending_boosts, call.id)) < ret.total

\* C4 (as claimed): a provide_funds_for_boosting or stop_boosting that returns
\* an error leaves the pool as it was before the call
FailedCallLeavesPool ==
    (IsProvide \/ IsStop) /\ ~ret.ok => Pool = pre.pool

\* C5: provide_funds_for_boosting with an id that is pending returns an error
\* and the pending boost of that id stays exactly as it was
DuplicateIdRejected ==
    CallIdPending =>
        /\ ~ret.ok
        /\ call.id \in DOMAIN pending_boosts
        /\ pending_boosts[call.id] = pre.pool.pending_boosts[call.id]

\* C5 witness: a second boost was requested for an id whose pending boost has
\* owed amounts, on a pool with funds
DuplicateIdWitness ==
    /\ CallIdPending
    /\ DOMAIN pending_boosts[call.id] # {}
    /\ pre.pool.available_amount > 0

\* C6: the total a successful provide_funds_for_boosting returns is at most
\* the amount to boost
ProvidedAtMostRequested ==
    IsProvide /\ ret.ok => ret.total <= call.amount

\* C6 witness: a boost on the insufficient-liquidity path returned a total
\* that is positive and below the requested amount
ProvidedAtMostRequestedWitness ==
    /\ CallInsufficient /\ ret.ok
    /\ ret.total > 0
    /\ ret.total < call.amount

\* C7 (as claimed): on a pool holding at least the required amount
\* provide_funds_for_boosting returns (amount_to_boost, full fee) and takes
\* exactly the required amount from available_amount
SufficientPathAlways ==
    CallSufficient =>
        /\ ret.ok
        /\ ret.total = call.amount
        /\ ret.fee = into_chain_amount(CallFullFee)
        /\ available_amount = pre.pool.available_amount - CallRequired

\* C7 (amended): the same for a deposit id that is not pending
SufficientPath ==
    CallSufficient /\ ~CallIdPending =>
        /\ ret.ok
        /\ ret.total = call.amount
        /\ ret.fee = into_chain_amount(CallFullFee)
        /\ available_amount = pre.pool.available_amount - CallRequired

\* C7 witness: a full boost with a network fee deduction and a fee of at
\* least one chain unit
SufficientPathWitness ==
    /\ CallSufficient /\ ~CallIdPending
    /\ call.percent > 0
    /\ ret.fee > 0
    /\ CallRequired > 0

\* C8 (as claimed): on a pool holding less than the required amount
\* provide_funds_for_boosting succeeds, leaves available_amount 0 and every
\* booster in amounts with balance 0, and reports the fee that
\* fee_from_provided_amount gives for the former available_amount
PartialBoostAlways ==
    CallInsufficient =>
        /\ ret.ok
        /\ available_amount = 0
        /\ DOMAIN amounts = DOMAIN pre.pool.amounts
        /\ \A b \in DOMAIN amounts : amounts[b] = 0
        /\ ret.fee = into_chain_amount(
               fee_from_provided_amount(pre.pool.available_amount, fee_bps).fee)

\* C8 (amended): the same for a deposit id that is not pending
PartialBoost ==
    CallInsufficient /\ ~CallIdPending =>
        /\ ret.ok
        /\ available_amount = 0
        /\ DOMAIN amounts = DOMAIN pre.pool.amounts
        /\ \A b \in DOMAIN amounts : amounts[b] = 0
        /\ ret.fee = into_chain_amount(
               fee_from_provided_amount(pre.pool.available_amount, fee_bps).fee)

\* C8 witness: a partial boost took the funds of two boosters
PartialBoostWitness ==
    /\ CallInsufficient /\ ~CallIdPending
    /\ pre.pool.available_amount > 0
    /\ Cardinality(DOMAIN pre.pool.amounts) >= 2
    /\ \A b \in DOMAIN pre.pool.amounts : pre.pool.amounts[b] > 0

\* C9: the same provide_funds_for_boosting call made with any other network
\* fee deduction returns the same result and leaves the same amounts and
\* available_amount
DeductionDoesNotShowInResult ==
    IsProvide =>
        \A percent \in PercentChoices :
            LET other == provide_funds_for_boosting(pre.pool, call.id, call.amount,
                                                    percent)
            IN /\ other.ret = ret
               /\ other.pool.amounts = amounts
               /\ other.pool.available_amount = available_amount

\* C9 witness: a boost with a deduction that returned a fee and recorded owed
\* amounts other than those a boost without deduction records
DeductionWitness ==
    /\ IsProvide /\ ret.ok
    /\ call.percent > 0
    /\ ret.fee > 0
    /\ pending_boosts #
         provide_funds_for_boosting(pre.pool, call.id, call.amount, 0).pool.pending_boosts

\* C10 (as claimed): a deposit that is boosted and finalised by the next call
\* leaves available_amount at its value before the boost plus the fee left
\* after the network fee deduction
FinalisedBoostAddsPoolFee ==
    IsFinalised /\ call.id \in DOMAIN pre.boost_log /\ pre.boost_log[call.id].fresh =>
        available_amount =
            pre.boost_log[call.id].available_before
            + pre.boost_log[call.id].boost_pool_fee

----------------------------------------------------------------------------
(* Resolving a boosted deposit *)

IsLost == call.op = "process_deposit_as_lost"

\* the last call resolved a deposit that was pending
ResolvedPending ==
    (IsFinalised \/ IsLost) /\ call.id \in DOMAIN pre.pool.pending_boosts

\* the owed amounts the resolved deposit had on record
ResolvedBoost == pre.pool.pending_boosts[call.id]

\* the contributors of the resolved deposit that were (not) withdrawing
UnlockedBoosters ==
    {b \in DOMAIN ResolvedBoost : b \in DOMAIN pre.pool.pending_withdrawals}
CreditedBoosters == (DOMAIN ResolvedBoost) \ UnlockedBoosters

\* the sum of owed.total over a set of contributors of the resolved deposit
ResolvedTotal(boosters) ==
    SumOver([b \in DOMAIN ResolvedBoost |-> ResolvedBoost[b].total], boosters)

\* the entry of booster b is the same in the maps m and n
SameEntry(m, n, b) ==
    /\ b \in DOMAIN m <=> b \in DOMAIN n
    /\ b \in DOMAIN m => m[b] = n[b]

\* C11: finalising a pending deposit adds to amounts[b] exactly owed.total of
\* every contributor b that is not withdrawing, creating the entry if absent,
\* leaves every other entry of amounts as it was, and raises available_amount
\* by the sum of the amounts added
FinalisedCreditsActiveBoosters ==
    IsFinalised /\ ResolvedPending =>
        /\ \A b \in CreditedBoosters :
              /\ b \in DOMAIN amounts
              /\ amounts[b] =
                    (IF b \in DOMAIN pre.pool.amounts THEN pre.pool.amounts[b] ELSE 0)
                    + ResolvedBoost[b].total
        /\ \A b \in Boosters \ CreditedBoosters : SameEntry(amounts, pre.pool.amounts, b)
        /\ DOMAIN amounts \subseteq Boosters
        /\ available_amount = pre.pool.available_amount + ResolvedTotal(CreditedBoosters)

\* C11 witness: a finalisation that credited a contributor an amount that is
\* no whole number of chain units, on a pool with a booster that did not
\* contribute
FinalisedCreditsWitness ==
    /\ IsFinalised /\ ResolvedPending
    /\ \E b \in CreditedBoosters : ResolvedBoost[b].total % SCALE_FACTOR # 0
    /\ \E b \in DOMAIN pre.pool.amounts : b \notin DOMAIN ResolvedBoost

\* C12: finalising a pending deposit returns in unlocked_funds one pair
\* (booster, owed.total in chain units) per withdrawing contributor, in booster
\* order, credits nothing to amounts or available_amount for them, and takes
\* the deposit out of their pending_withdrawals sets, dropping a set that
\* becomes empty
FinalisedUnlocksWithdrawingBoosters ==
    IsFinalised /\ ResolvedPending =>
        /\ Len(ret.unlocked_funds) = Cardinality(UnlockedBoosters)
        /\ \A i \in 1..Len(ret.unlocked_funds) :
              /\ ret.unlocked_funds[i][1] = Nth(UnlockedBoosters, i - 1)
              /\ ret.unlocked_funds[i][2] =
                    into_chain_amount(ResolvedBoost[ret.unlocked_funds[i][1]].total)
        /\ \A b \in UnlockedBoosters :
              /\ SameEntry(amounts, pre.pool.amounts, b)
              /\ LET left == pre.pool.pending_withdrawals[b] \ {call.id}
                 IN IF left = {}
                    THEN b \notin DOMAIN pending_withdrawals
                    ELSE /\ b \in DOMAIN pending_withdrawals
                         /\ pending_withdrawals[b] = left
        /\ available_amount = pre.pool.available_amount + ResolvedTotal(CreditedBoosters)

\* C12 witness: a finalisation that unlocked the funds of a booster still
\* waiting for another deposit
FinalisedUnlocksWitness ==
    /\ IsFinalised /\ ResolvedPending
    /\ \E b \in UnlockedBoosters :
          /\ pre.pool.pending_withdrawals[b] \ {call.id} # {}
          /\ ResolvedBoost[b].total > 0

\* C12, second case: a finalisation that unlocked the funds of a booster
\* waiting for no other deposit
FinalisedUnlocksLastDeposit ==
    /\ IsFinalised /\ ResolvedPending
    /\ \E b \in UnlockedBoosters : pre.pool.pending_withdrawals[b] = {call.id}

\* C13 (as claimed): amount_credited_to_boosters of a finalisation is the
\* increase of available_amount, in chain units
CreditedIsAvailableIncrease ==
    IsFinalised /\ ResolvedPending =>
        ret.amount_credited_to_boosters =
            into_chain_amount(available_amount - pre.pool.available_amount)

\* C13: amount_credited_to_boosters of a finalisation is the sum of owed.total
\* over all contributors, withdrawing ones included, converted to chain units
\* once; it is the increase of available_amount when no contributor is
\* withdrawing
CreditedIsOwedTotal ==
    IsFinalised /\ ResolvedPending =>
        /\ ret.amount_credited_to_boosters =
              into_chain_amount(OwedTotal(pre.pool.pending_boosts, call.id))
        /\ UnlockedBoosters = {} =>
              ret.amount_credited_to_boosters =
                  into_chain_amount(available_amount - pre.pool.available_amount)

\* C13 witness: a finalisation with a withdrawing and a credited contributor
\* that reported more than went into available_amount
CreditedIsOwedTotalWitness ==
    /\ IsFinalised /\ ResolvedPending
    /\ UnlockedBoosters # {} /\ CreditedBoosters # {}
    /\ ret.amount_credited_to_boosters >
          into_chain_amount(available_amount - pre.pool.available_amount)

\* the pending_withdrawals entry of a contributor b after the last call
\* resolved a deposit: the deposit has left b's set, an empty set is dropped
WithdrawalPruned(b) ==
    LET left == pre.pool.pending_withdrawals[b] \ {call.id}
    IN IF left = {}
       THEN b \notin DOMAIN pending_withdrawals
       ELSE b \in DOMAIN pending_withdrawals /\ pending_withdrawals[b] = left

\* C14: process_deposit_as_lost for a pending deposit removes its
\* pending_boosts entry, leaves available_amount and amounts as they were,
\* takes the deposit out of the pending_withdrawals set of every contributor
\* and drops a set that becomes empty
LostRemovesWithoutCredit ==
    IsLost /\ ResolvedPending =>
        /\ pending_boosts = MapRemove(pre.pool.pending_boosts, call.id)
        /\ available_amount = pre.pool.available_amount
        /\ amounts = pre.pool.amounts
        /\ DOMAIN pending_withdrawals \subseteq Boosters
        /\ \A b \in UnlockedBoosters : WithdrawalPruned(b)
        /\ \A b \in Boosters \ UnlockedBoosters :
              SameEntry(pending_withdrawals, pre.pool.pending_withdrawals, b)

\* C14 witness: a deposit with funds owed was lost while a contributor was
\* withdrawing and waiting for another deposit too, and another booster was
\* active
LostRemovesWitness ==
    /\ IsLost /\ ResolvedPending
    /\ \E b \in UnlockedBoosters :
          /\ pre.pool.pending_withdrawals[b] \ {call.id} # {}
          /\ ResolvedBoost[b].total > 0
    /\ pre.pool.amounts # EmptyMap

\* the last call resolved a deposit that was not pending
ResolvedUnknown ==
    (IsFinalised \/ IsLost) /\ call.id \notin DOMAIN pre.pool.pending_boosts

\* C15: process_deposit_as_lost for a deposit that is not pending does not
\* fail, returns 0 and changes no field of the pool
LostUnknownIsNoOp ==
    IsLost /\ ResolvedUnknown =>
        ~ret.panicked /\ ret.count = 0 /\ Pool = pre.pool

\* C15 witness: a deposit that is not pending was reported lost on a pool
\* with boosters, another pending boost and a pending withdrawal
LostUnknownWitness ==
    /\ IsLost /\ ResolvedUnknown
    /\ pre.pool.amounts # EmptyMap
    /\ pre.pool.pending_boosts # EmptyMap
    /\ pre.pool.pending_withdrawals # EmptyMap

\* C16: process_deposit_as_finalised for a deposit that is not pending returns
\* no unlocked funds and 0 credited, and changes no field of the pool
FinalisedUnknownIsNoOp ==
    IsFinalised /\ ResolvedUnknown =>
        /\ ret = [unlocked_funds |-> << >>, amount_credited_to_boosters |-> 0]
        /\ Pool = pre.pool

\* C16 witness: a deposit that is not pending was finalised on a pool with
\* boosters, another pending boost and a pending withdrawal
FinalisedUnknownWitness ==
    /\ IsFinalised /\ ResolvedUnknown
    /\ pre.pool.amounts # EmptyMap
    /\ pre.pool.pending_boosts # EmptyMap
    /\ pre.pool.pending_withdrawals # EmptyMap

\* C17: a resolution call for a deposit that was boosted and resolved, and
\* not boosted again since, credits nothing, unlocks nothing and changes no
\* field of the pool
ResolvedOnce ==
    (IsFinalised \/ IsLost) /\ call.id \in pre.resolved =>
        /\ Pool = pre.pool
        /\ IsFinalised =>
              ret = [unlocked_funds |-> << >>, amount_credited_to_boosters |-> 0]
        /\ IsLost => ret.count = 0

\* C17 witness: a second finalisation of a deposit, made while a later boost
\* of another deposit was pending
ResolvedOnceWitness ==
    /\ IsFinalised /\ call.id \in pre.resolved
    /\ pre.pool.pending_boosts # EmptyMap
    /\ \E id \in DOMAIN pre.pool.pending_boosts :
          OwedTotal(pre.pool.pending_boosts, id) > 0

----------------------------------------------------------------------------
(* The life of a pending boost, and stop_boosting *)

IsAddFunds == call.op = "add_funds"

\* C18: a deposit id is a key of pending_boosts exactly from a successful
\* provide_funds_for_boosting for it until the next resolution call for it;
\* every successful provide_funds_for_boosting leaves an entry for its id,
\* add_funds and stop_boosting leave pending_boosts as it was, and a boost of
\* an id that was resolved succeeds and leaves an entry again
PendingFromBoostToResolution ==
    /\ DOMAIN pending_boosts = DOMAIN boost_log
    /\ IsProvide /\ ret.ok => call.id \in DOMAIN pending_boosts
    /\ IsAddFunds \/ IsStop => pending_boosts = pre.pool.pending_boosts
    /\ IsFinalised \/ IsLost => call.id \notin DOMAIN pending_boosts
    /\ IsProvide /\ call.id \in pre.resolved =>
          ret.ok /\ call.id \in DOMAIN pending_boosts

\* C18 witness: a deposit that was boosted and resolved was boosted again, on
\* a pool that had nothing to provide
PendingAgainWitness ==
    /\ IsProvide /\ call.id \in pre.resolved
    /\ pre.pool.available_amount = 0
    /\ ret.ok /\ ret.total = 0
    /\ call.id \in DOMAIN pending_boosts

\* the last call was a stop_boosting of a booster with an entry in amounts
StoppedActive == IsStop /\ call.booster \in DOMAIN pre.pool.amounts

\* C19: stop_boosting of a booster in amounts removes the booster's entry,
\* lowers available_amount by the booster's whole scaled balance, returns that
\* balance in chain units, and leaves the entries of the other boosters and
\* pending_boosts as they were
StopBoostingReturnsBalance ==
    StoppedActive =>
        /\ ret.ok
        /\ call.booster \notin DOMAIN amounts
        /\ available_amount =
              pre.pool.available_amount - pre.pool.amounts[call.booster]
        /\ ret.amount = into_chain_amount(pre.pool.amounts[call.booster])
        /\ \A b \in Boosters \ {call.booster} : SameEntry(amounts, pre.pool.amounts, b)
        /\ DOMAIN amounts \subseteq Boosters
        /\ pending_boosts = pre.pool.pending_boosts

\* C19 witness: a booster whose balance was no whole number of chain units
\* stopped boosting while another booster was active and a boost was pending
StopBoostingWitness ==
    /\ StoppedActive
    /\ pre.pool.amounts[call.booster] % SCALE_FACTOR # 0
    /\ DOMAIN pre.pool.amounts # {call.booster}
    /\ pre.pool.pending_boosts # EmptyMap

\* C20: a successful stop_boosting returns the ids of the pending boosts that
\* have an entry for the booster and records that set as the booster's
\* pending_withdrawals; when the set is empty the booster has no
\* pending_withdrawals entry afterwards
StopBoostingMarksPendingDeposits ==
    IsStop /\ ret.ok =>
        LET contributed ==
                {id \in DOMAIN pre.pool.pending_boosts :
                    call.booster \in DOMAIN pre.pool.pending_boosts[id]}
        IN /\ ret.pending_deposits = contributed
           /\ IF contributed = {}
              THEN call.booster \notin DOMAIN pending_withdrawals
              ELSE /\ call.booster \in DOMAIN pending_withdrawals
                   /\ pending_withdrawals[call.booster] = contributed

\* C20 witness: a booster stopped boosting that had contributed to one of two
\* pending boosts
StopBoostingMarksWitness ==
    /\ IsStop /\ ret.ok
    /\ ret.pending_deposits # {}
    /\ ret.pending_deposits # DOMAIN pre.pool.pending_boosts
    /\ pending_withdrawals[call.booster] = ret.pending_deposits

\* C20, second case: a booster stopped boosting that had contributed to none
\* of the pending boosts
StopBoostingMarksNothing ==
    /\ IsStop /\ ret.ok
    /\ ret.pending_deposits = {}
    /\ pre.pool.pending_boosts # EmptyMap

\* C21: stop_boosting of a booster without an entry in amounts returns
\* AccountNotFoundInBoostPool and changes no field of the pool; a stop_boosting
\* that follows a successful stop_boosting of the same booster is such a call
StopBoostingTwice ==
    [][/\ IsStop' /\ call'.booster \notin DOMAIN amounts =>
            /\ ~ret'.ok
            /\ ret'.err = "AccountNotFoundInBoostPool"
            /\ Pool' = Pool
       /\ IsStop /\ ret.ok /\ IsStop' /\ call'.booster = call.booster =>
            /\ ~ret'.ok
            /\ ret'.err = "AccountNotFoundInBoostPool"
            /\ Pool' = Pool]_vars

\* C21 witness: a booster that had stopped boosting and was still waiting for
\* a pending boost called stop_boosting again, while another booster was active
StopBoostingTwiceWitness ==
    /\ IsStop /\ ~ret.ok
    /\ call.booster \in DOMAIN pre.pool.pending_withdrawals
    /\ pre.pool.amounts # EmptyMap

----------------------------------------------------------------------------
(* add_funds *)

\* the boosters named in the unlocked_funds of the last finalisation
UnlockedFundsBoosters ==
    {ret.unlocked_funds[i][1] : i \in 1..Len(ret.unlocked_funds)}

\* C22: add_funds leaves the booster without a pending_withdrawals entry and
\* pending_boosts as it was; when a deposit of a withdrawal that add_funds
\* cancelled is finalised, with no stop_boosting of the booster in between,
\* the booster's owed total goes into its amounts entry and the booster is
\* not in unlocked_funds
AddFundsCancelsWithdrawal ==
    /\ IsAddFunds =>
          /\ call.booster \notin DOMAIN pending_withdrawals
          /\ pending_boosts = pre.pool.pending_boosts
    /\ IsFinalised =>
          \A b \in Boosters :
              <<b, call.id>> \in pre.rejoined =>
                  /\ ResolvedPending
                  /\ b \in DOMAIN ResolvedBoost
                  /\ b \in DOMAIN pre.pool.amounts /\ b \in DOMAIN amounts
                  /\ amounts[b] = pre.pool.amounts[b] + ResolvedBoost[b].total
                  /\ b \notin UnlockedFundsBoosters

\* C22 witness: a deposit was finalised that owed funds to a booster who had
\* stopped boosting and added funds again
AddFundsCancelsWitness ==
    /\ IsFinalised
    /\ \E b \in Boosters :
          /\ <<b, call.id>> \in pre.rejoined
          /\ ResolvedBoost[b].total > 0

\* C23: add_funds(b, x) raises amounts[b], taken as 0 when absent, and
\* available_amount by x * 1000 scaled units and leaves the amounts entries of
\* the other boosters, pending_boosts and the pending_withdrawals entries of
\* the other boosters as they were
AddFundsAccrues ==
    IsAddFunds =>
        /\ call.booster \in DOMAIN amounts
        /\ amounts[call.booster] =
              (IF call.booster \in DOMAIN pre.pool.amounts
               THEN pre.pool.amounts[call.booster] ELSE 0)
              + call.amount * 1000
        /\ available_amount = pre.pool.available_amount + call.amount * 1000
        /\ DOMAIN amounts \subseteq Boosters
        /\ DOMAIN pending_withdrawals \subseteq Boosters
        /\ \A b \in Boosters \ {call.booster} :
              /\ SameEntry(amounts, pre.pool.amounts, b)
              /\ SameEntry(pending_withdrawals, pre.pool.pending_withdrawals, b)
        /\ pending_boosts = pre.pool.pending_boosts

\* C23 witness: a booster without an entry in amounts added funds while
\* another booster was waiting for a pending boost
AddFundsAccruesWitness ==
    /\ IsAddFunds
    /\ call.booster \notin DOMAIN pre.pool.amounts
    /\ \E b \in DOMAIN pre.pool.pending_withdrawals : b # call.booster
    /\ pre.pool.pending_boosts # EmptyMap

----------------------------------------------------------------------------
(* Pending withdrawals *)

\* C24: every set in pending_withdrawals is non-empty, and each deposit id in
\* the set of a booster is a key of pending_boosts whose entry has the booster
WithdrawalsAwaitPendingBoosts ==
    \A b \in DOMAIN pending_withdrawals :
        /\ pending_withdrawals[b] # {}
        /\ \A id \in pending_withdrawals[b] :
              /\ id \in DOMAIN pending_boosts
              /\ b \in DOMAIN pending_boosts[id]

\* C24 witness: a resolution took one of two deposits out of the set of a
\* withdrawing booster and left the other one
WithdrawalsAwaitWitness ==
    /\ ResolvedPending
    /\ \E b \in UnlockedBoosters :
          /\ b \in DOMAIN pending_withdrawals
          /\ pending_withdrawals[b] = pre.pool.pending_withdrawals[b] \ {call.id}
          /\ pending_withdrawals[b] # {}

----------------------------------------------------------------------------
(* Fees *)

\* C26 (as claimed): provide_funds_for_boosting on a pool with a fee rate of
\* 10,000 bps fails with the invalid fee error and records no pending boost
FullFeeRejected ==
    IsProvide /\ fee_bps = BASIS_POINTS_MAX =>
        /\ ~ret.ok
        /\ ret.err = "invalid fee"
        /\ pending_boosts = pre.pool.pending_boosts

----------------------------------------------------------------------------
(* Scaled amounts *)

IsRoundTrip == call.op = "from_chain_amount"

\* the largest chain amount that is scaled without saturation
MaxExactNative == U128_MAX \div 1000

\* C27: into_chain_amount(from_chain_amount(x)) = x for every chain amount x
\* up to floor(u128::MAX / 1000); from_chain_amount never exceeds u128::MAX
\* and is u128::MAX for every larger x
RoundTripScaling ==
    IsRoundTrip =>
        /\ ret.scaled <= U128_MAX
        /\ call.amount <= MaxExactNative =>
              ret.scaled = call.amount * 1000 /\ ret.recovered = call.amount
        /\ call.amount > MaxExactNative => ret.scaled = U128_MAX

\* C27 witness: the largest chain amount scaled without saturation came back
\* from the round trip
RoundTripWitness ==
    /\ IsRoundTrip
    /\ call.amount = MaxExactNative
    /\ ret.recovered = call.amount

\* C27, second case: a larger chain amount saturated and came back smaller
RoundTripSaturated ==
    /\ IsRoundTrip
    /\ call.amount > MaxExactNative
    /\ ret.scaled = U128_MAX
    /\ ret.recovered < call.amount

----------------------------------------------------------------------------
(* Scenario: fee distribution *)

\* the pool of the scenario after add_funds(B1, 1000) on a new pool with a
\* fee rate of 100 bps
ScenarioFunded == add_funds(NewPool(100), 1, 1000)

\* the pool of the scenario after provide_funds_for_boosting(1, 2000, 0%)
ScenarioBoosted == provide_funds_for_boosting(ScenarioFunded, 1, 2000, 0).pool

\* the pool of the scenario after process_deposit_as_finalised(1)
ScenarioFinalised == process_deposit_as_finalised(ScenarioBoosted, 1).pool

\* the last call was the boost of the scenario
ScenarioBoostCalled ==
    /\ IsProvide /\ pre.pool = ScenarioFunded
    /\ call.id = 1 /\ call.amount = 2000 /\ call.percent = 0

\* the last call was the add_funds(B1, 200) that ends the scenario
ScenarioAddedAgain ==
    /\ IsAddFunds /\ pre.pool = ScenarioFinalised
    /\ call.booster = 1 /\ call.amount = 200

\* C28 (as claimed): the boost of the scenario returns (1000, 10) and leaves
\* amounts = {B1: 0}; after the finalisation and add_funds(B1, 200),
\* amounts = {B1: 1010} in chain units
ScenarioAsClaimed ==
    /\ ScenarioBoostCalled =>
          /\ CallInsufficient
          /\ ret.ok /\ ret.total = 1000 /\ ret.fee = 10
          /\ DOMAIN amounts = {1} /\ amounts[1] = 0
    /\ ScenarioAddedAgain =>
          DOMAIN amounts = {1} /\ into_chain_amount(amounts[1]) = 1010

\* C28: the boost of the scenario takes the insufficient liquidity path,
\* returns (1010, 10), the 1000 provided and the fee on them, and leaves
\* amounts = {B1: 0}; after the finalisation and add_funds(B1, 200), amounts
\* is {B1: 1210} in chain units, 1,210,101 scaled
ScenarioFeeDistribution ==
    /\ ScenarioBoostCalled =>
          /\ CallInsufficient
          /\ ret.ok /\ ret.total = 1010 /\ ret.fee = 10
          /\ DOMAIN amounts = {1} /\ amounts[1] = 0
    /\ ScenarioAddedAgain =>
          /\ DOMAIN amounts = {1}
          /\ amounts[1] = 1210101
          /\ into_chain_amount(amounts[1]) = 1210

\* C28 witness: the scenario was run to its end
ScenarioWitness ==
    /\ ScenarioAddedAgain
    /\ pre.pool.amounts[1] = 1010101
    /\ ops = 4

(* Proportional shares and rounding remainders *)

\* the boosters with an entry in amounts when the last call was made
ActiveBefore == DOMAIN pre.pool.amounts

\* the booster the last provide_funds_for_boosting call selected to absorb
\* the rounding remainders: none on a pool without boosters
CallLuckyBooster ==
    IF ActiveBefore = {} THEN {}
    ELSE {Nth(ActiveBefore, lucky_index(call.id, Cardinality(ActiveBefore)))}

\* amount * amounts[b] / available_amount on the pool before the last call,
\* rounded up; zero on a pool with nothing available
ShareRoundedUp(amount, b) ==
    IF pre.pool.available_amount = 0 THEN 0
    ELSE (amount * pre.pool.amounts[b] + pre.pool.available_amount - 1)
             \div pre.pool.available_amount

\* amount * amounts[b] / available_amount on the pool before the last call,
\* rounded down; zero on a pool with nothing available
ShareRoundedDown(amount, b) ==
    IF pre.pool.available_amount = 0 THEN 0
    ELSE (amount * pre.pool.amounts[b]) \div pre.pool.available_amount

\* the last call was a provide_funds_for_boosting that reached
\* use_funds_for_boosting
CallUsedFunds == IsProvide /\ CallAmounts.ok

\* C29: a provide_funds_for_boosting call lowers the balance of every booster
\* but the lucky one by its share of the provided amount rounded up, and the
\* record it creates owes every booster but the lucky one its share of the
\* provided amount plus the pool's fee rounded down, the shares taken from the
\* balances and available_amount before the call
ProportionalShares ==
    CallUsedFunds =>
        \A b \in ActiveBefore \ CallLuckyBooster :
            /\ pre.pool.amounts[b] - amounts[b] =
                   ShareRoundedUp(CallAmounts.provided_amount, b)
            /\ ret.ok =>
                   pending_boosts[call.id][b].total =
                       ShareRoundedDown(CallAmounts.provided_amount
                                            + CallAmounts.boost_pool_fee, b)

\* C29 witness: a boost took from two boosters, and the share of the one
\* that was not lucky is not a whole number either way
ProportionalSharesWitness ==
    /\ CallUsedFunds /\ ret.ok
    /\ Cardinality(ActiveBefore) = 2
    /\ \E b \in ActiveBefore \ CallLuckyBooster :
           /\ ShareRoundedUp(CallAmounts.provided_amount, b) >
                  ShareRoundedDown(CallAmounts.provided_amount, b)
           /\ ShareRoundedUp(CallAmounts.provided_amount
                                 + CallAmounts.boost_pool_fee, b) >
                  ShareRoundedDown(CallAmounts.provided_amount
                                       + CallAmounts.boost_pool_fee, b)
           /\ pre.pool.amounts[b] > amounts[b]

\* the sum of the rounded-up contributions of the last call less the amount
\* it provided
CallExcessContributed ==
    SumValues([b \in ActiveBefore |->
                  ShareRoundedUp(CallAmounts.provided_amount, b)])
        - CallAmounts.provided_amount

\* the provided amount and the pool's fee of the last call less the sum of the
\* rounded-down amounts to receive
CallRemainingToReceive ==
    CallAmounts.provided_amount + CallAmounts.boost_pool_fee
        - SumValues([b \in ActiveBefore |->
                        ShareRoundedDown(CallAmounts.provided_amount
                                             + CallAmounts.boost_pool_fee, b)])

\* C30: in a provide_funds_for_boosting call on a pool with n >= 1 boosters
\* the excess contributed and the remainder to receive are each at most n - 1
RemaindersBounded ==
    (CallUsedFunds /\ ActiveBefore # {}) =>
        /\ CallExcessContributed <= Cardinality(ActiveBefore) - 1
        /\ CallRemainingToReceive <= Cardinality(ActiveBefore) - 1

\* the fee the last call recorded for booster b before the remainders were
\* reconciled: the amount to receive less the contribution, never below zero
ShareFee(b) ==
    saturating_sub(ShareRoundedDown(CallAmounts.provided_amount
                                        + CallAmounts.boost_pool_fee, b),
                   ShareRoundedUp(CallAmounts.provided_amount, b))

\* after the last call the balance of b and, when the call created a record,
\* what b is owed are the rounded proportional shares with excess added to
\* the balance and remaining added to the owed total and fee
SharesWithRemainders(b, excess, remaining) ==
    /\ amounts[b] =
           pre.pool.amounts[b] - ShareRoundedUp(CallAmounts.provided_amount, b)
               + excess
    /\ ret.ok =>
           /\ pending_boosts[call.id][b].total =
                  ShareRoundedDown(CallAmounts.provided_amount
                                       + CallAmounts.boost_pool_fee, b)
                      + remaining
           /\ pending_boosts[call.id][b].fee = ShareFee(b) + remaining

\* C31: in a provide_funds_for_boosting call on a pool with boosters one of
\* them takes the whole excess contributed on its balance and the whole
\* remainder to receive on the total and the fee it is owed, and every other
\* booster has exactly the rounded proportional shares
OneBoosterAbsorbsRemainders ==
    (CallUsedFunds /\ ActiveBefore # {}) =>
        \E lucky \in ActiveBefore :
            /\ SharesWithRemainders(lucky, CallExcessContributed,
                                    CallRemainingToReceive)
            /\ \A b \in ActiveBefore \ {lucky} : SharesWithRemainders(b, 0, 0)

\* C31 witness: a boost on two boosters left an excess contributed and a
\* remainder to receive, and one booster took both
OneBoosterAbsorbsWitness ==
    /\ CallUsedFunds /\ ret.ok
    /\ Cardinality(ActiveBefore) = 2
    /\ CallExcessContributed > 0
    /\ CallRemainingToReceive > 0
    /\ \E lucky \in ActiveBefore :
           /\ SharesWithRemainders(lucky, CallExcessContributed,
                                   CallRemainingToReceive)
           /\ ~SharesWithRemainders(lucky, 0, 0)

(* The fee functions *)

IsFeeFromBoosted == call.op = "fee_from_boosted_amount"
IsFeeFromProvided == call.op = "fee_from_provided_amount"

\* floor(amount * bps / 10_000), the product split so that it stays inside
\* the integers of the model checker
FeeRoundedDown(amount, bps) ==
    (amount \div BASIS_POINTS_MAX) * bps
        + ((amount % BASIS_POINTS_MAX) * bps) \div BASIS_POINTS_MAX

\* C32: fee_from_boosted_amount(a, fee_bps) is floor(a * fee_bps / 10_000)
FeeFromBoostedRoundsDown ==
    IsFeeFromBoosted => ret.fee = FeeRoundedDown(call.amount, fee_bps)

\* floor(p * 10_000 / (10_000 - bps)) - p for bps < 10_000, which is
\* floor(p * bps / (10_000 - bps)), the product split so that it stays
\* inside the integers of the model checker
FeeOnProvided(p, bps) ==
    LET inverse_fee == BASIS_POINTS_MAX - bps
    IN (p \div inverse_fee) * bps + ((p % inverse_fee) * bps) \div inverse_fee

\* p * 10_000 fits in a u128
ProductFits(p) == p <= U128_MAX \div BASIS_POINTS_MAX

\* floor(p * 10_000 / (10_000 - bps)) fits in a u128
BoostedFits(p, bps) == p + FeeOnProvided(p, bps) <= U128_MAX

\* a result of fee_from_provided_amount that is a fee within u128
FeeIsSound == ret.ok => (ret.fee >= 0 /\ ret.fee <= U128_MAX)

\* C33 as stated: the fee is floor(p * 10_000 / (10_000 - fee_bps)) - p when
\* fee_bps < 10_000 and the product fits, and the result is the invalid fee
\* error when fee_bps is 10_000 or the product overflows
FeeFromProvidedFailsOnProductOverflow ==
    IsFeeFromProvided =>
        /\ (fee_bps < BASIS_POINTS_MAX /\ ProductFits(call.amount)) =>
               (ret.ok /\ ret.fee = FeeOnProvided(call.amount, fee_bps))
        /\ (fee_bps = BASIS_POINTS_MAX \/ ~ProductFits(call.amount)) => ~ret.ok
        /\ FeeIsSound

\* C33: the fee is floor(p * 10_000 / (10_000 - fee_bps)) - p when
\* fee_bps < 10_000 and the quotient fits in a u128, and the result is the
\* invalid fee error when fee_bps is 10_000 or the quotient overflows; a fee
\* returned is never negative or wrapped
FeeFromProvidedFailsOnQuotientOverflow ==
    IsFeeFromProvided =>
        /\ (fee_bps < BASIS_POINTS_MAX /\ BoostedFits(call.amount, fee_bps)) =>
               (ret.ok /\ ret.fee = FeeOnProvided(call.amount, fee_bps))
        /\ (fee_bps = BASIS_POINTS_MAX \/ ~BoostedFits(call.amount, fee_bps)) =>
               ~ret.ok
        /\ FeeIsSound

\* C33 witness: a fee taken on an amount whose product with 10_000 overflows
\* while the quotient fits, and rounded down
FeeFromProvidedWitness ==
    /\ IsFeeFromProvided
    /\ ~ProductFits(call.amount)
    /\ fee_bps = 6
    /\ ret.ok
    /\ ret.fee > 0
    /\ (call.amount * fee_bps) % (BASIS_POINTS_MAX - fee_bps) # 0

\* the quotient of an amount at the upper end of u128 overflowed
FeeFromProvidedOverflowed ==
    /\ IsFeeFromProvided
    /\ fee_bps = 5000
    /\ call.amount = U128_MAX
    /\ ~ret.ok

(* Subtractions of the distribution *)

\* the amount every booster is to receive from the last call, before the
\* remainder is reconciled
ShareToReceive(b) ==
    ShareRoundedDown(CallAmounts.provided_amount + CallAmounts.boost_pool_fee, b)

\* the subtractions of the last call on the balances and on the two sums did
\* not clamp, and available_amount did not underflow
NoClampOnBalancesAndSums ==
    /\ ret.err # "Not enough available funds"
    /\ \A b \in ActiveBefore :
           ShareRoundedUp(CallAmounts.provided_amount, b) <= pre.pool.amounts[b]
    /\ ActiveBefore # {} => CallExcessContributed >= 0
    /\ CallRemainingToReceive >= 0

\* the subtraction that gives the fee of booster b did not clamp
NoClampOnFee(b) ==
    ShareToReceive(b) >= ShareRoundedUp(CallAmounts.provided_amount, b)

\* C34 as stated: provide_funds_for_boosting never meets the underflow error
\* and no saturating subtraction of the distribution clamps
NoSubtractionClamps ==
    CallUsedFunds =>
        /\ NoClampOnBalancesAndSums
        /\ \A b \in ActiveBefore : NoClampOnFee(b)

\* C34: provide_funds_for_boosting never meets the underflow error, every
\* rounded-up contribution is at most the balance it is taken from, the
\* contributions sum to at least the required amount and the rounded-down
\* amounts to receive sum to at most the required amount plus the fee
NoUnderflowInDistribution == CallUsedFunds => NoClampOnBalancesAndSums

\* C34 witness: a boost split between two boosters in shares that are not
\* whole, where the fee of a booster clamped at zero
NoUnderflowWitness ==
    /\ CallUsedFunds /\ ret.ok
    /\ Cardinality(ActiveBefore) = 2
    /\ CallExcessContributed > 0
    /\ \E b \in ActiveBefore :
           /\ ~NoClampOnFee(b)
           /\ b \notin CallLuckyBooster
           /\ pending_boosts[call.id][b].fee = 0

(* Withdrawing boosters *)

\* C35: a booster with an entry in pending_withdrawals has no entry in
\* amounts
WithdrawingIsNotActive ==
    (DOMAIN pending_withdrawals) \cap (DOMAIN amounts) = {}

\* C35 witness: a finalisation credited an active booster and unlocked the
\* funds of a withdrawing one, who is still awaiting another deposit
WithdrawingIsNotActiveWitness ==
    /\ IsFinalised /\ ResolvedPending
    /\ \E b \in UnlockedBoosters : b \in DOMAIN pending_withdrawals
    /\ \E b \in CreditedBoosters : b \in DOMAIN amounts

\* C36: the set pending_withdrawals holds for a booster is exactly the set
\* of the pending deposits the booster has a record in, and a resolution
\* always finds the resolved deposit in the set of every withdrawing booster
\* with a record in it
WithdrawalsAreThePendingBoosts ==
    /\ \A b \in DOMAIN pending_withdrawals :
           pending_withdrawals[b] =
               {id \in DOMAIN pending_boosts : b \in DOMAIN pending_boosts[id]}
    /\ ResolvedPending =>
           \A b \in UnlockedBoosters : call.id \in pre.pool.pending_withdrawals[b]

\* C36 witness: a booster with records in two pending deposits stopped
\* boosting, then one of the two deposits was resolved
WithdrawalsAreThePendingBoostsWitness ==
    /\ ResolvedPending
    /\ \E b \in UnlockedBoosters :
           /\ Cardinality(pre.pool.pending_withdrawals[b]) = 2
           /\ b \in DOMAIN pending_withdrawals
           /\ Cardinality(pending_withdrawals[b]) = 1

(* Recorded fees *)

\* the sum of owed.fee over the boosters recorded for a pending boost
OwedFee(boosts, id) ==
    SumValues([b \in DOMAIN boosts[id] |-> boosts[id][b].fee])

\* C37: in the entry a provide_funds_for_boosting call creates the owed fees
\* sum to at most the pool's fee of the boost after the network fee
\* deduction, every owed fee is at most the owed total, and every owed fee is
\* 0 when the pool's fee rate is 0 bps or the network fee deduction is 100%
RecordedFeesWithinPoolFee ==
    (IsProvide /\ ret.ok) =>
        /\ OwedFee(pending_boosts, call.id) <= CallAmounts.boost_pool_fee
        /\ \A b \in DOMAIN pending_boosts[call.id] :
               pending_boosts[call.id][b].fee <= pending_boosts[call.id][b].total
        /\ (fee_bps = 0 \/ call.percent = PERCENT_MAX) =>
               \A b \in DOMAIN pending_boosts[call.id] :
                   pending_boosts[call.id][b].fee = 0

(* The cost of rounding *)

\* the last call finalised the latest boost, which was followed since it
\* was made
FinalisedLatestBoost ==
    /\ IsFinalised /\ ResolvedPending
    /\ pre.boosted_from.tracked
    /\ call.id = pre.boosted_from.id

\* the boosters the latest boost was taken from that did not add funds or
\* stop boosting before it was finalised, with their balances before it
StayedActive == DOMAIN pre.boosted_from.amounts

\* C38: a booster that takes part in a boost and neither adds funds nor
\* stops boosting until the deposit is finalised, with no other boost in
\* between, has a balance after the finalisation of at least its balance
\* before the boost less one scaled unit
RoundingCostsAtMostOne ==
    FinalisedLatestBoost =>
        \A b \in StayedActive :
            /\ b \in DOMAIN amounts
            /\ amounts[b] >= pre.boosted_from.amounts[b] - 1

\* C38 witness: the finalisation of a boost left one booster a scaled unit
\* below its balance before the boost and another booster above it
RoundingCostsWitness ==
    /\ FinalisedLatestBoost
    /\ \E b \in StayedActive : amounts[b] = pre.boosted_from.amounts[b] - 1
    /\ \E b \in StayedActive : amounts[b] > pre.boosted_from.amounts[b]

(* Value conservation *)

\* the owed totals of all pending boosts
AllOwed ==
    SumValues([id \in DOMAIN pending_boosts |-> OwedTotalOf(pending_boosts[id])])

\* the calls so far are those the conservation of value is stated for: a fee
\* rate below 100% and no boost asked for with a pending id
LedgerKept == ledger.tracked /\ ledger.fresh_ids /\ fee_bps < BASIS_POINTS_MAX

HasNoRecord(b) ==
    /\ b \notin DOMAIN amounts
    /\ b \notin DOMAIN pending_withdrawals
    /\ \A id \in DOMAIN pending_boosts : b \notin DOMAIN pending_boosts[id]

\* no deposit is pending, no withdrawal is pending, and the boosters that
\* stopped boosting and did not add funds since have no record in the pool
PoolExited ==
    /\ pending_boosts = EmptyMap
    /\ pending_withdrawals = EmptyMap
    /\ \A b \in stopped.boosters : HasNoRecord(b)

\* C40: when no new boosts are made any more and every pending deposit is
\* resolved, the pool comes to have no pending boost and no pending
\* withdrawal, and no record of a booster that stopped boosting and did not
\* add funds again
ExitCompletes == <>[]PoolExited

\* C40 witness: the resolution of the last pending deposit released the funds
\* of a booster that had stopped boosting, and the pool has exited
ExitCompletesWitness ==
    /\ ResolvedPending
    /\ UnlockedBoosters # {}
    /\ UnlockedBoosters \subseteq stopped.boosters
    /\ PoolExited

====
